---- MODULE Spec2Model ----
(***************************************************************************)
(* Shape-level model of src/blocks.py: the four graph-construction         *)
(* functions DownsamplingBlock, FCU, PFCU and UpsamplingBlock.             *)
(*                                                                         *)
(* A tensor is its NHWC shape <<n, h, w, c>>.  Every function of blocks.py *)
(* is a straight-line sequence of `x = Layer(...)(operands)` statements;   *)
(* it is modelled as the sequence of nodes it creates (node k is the k-th  *)
(* layer call of the function body, operand 0 is the argument              *)
(* input_tensor) and evaluated in program order with the shape inference   *)
(* of the tf.keras layers it instantiates.  A layer that raises ends the   *)
(* call: the exception reaches the caller and no later layer is created.   *)
(*                                                                         *)
(* Dropout rates are written in hundredths (0.03 is 3, 0.3 is 30).         *)
(***************************************************************************)
EXTENDS Integers, Sequences, FiniteSets

VARIABLES
    input_tensor,   \* the tensor passed to the last block call
    call,           \* the last block call: function name and arguments
    built,          \* the nodes that call created, with their outputs, in program order
    result,         \* what that call returned, or the error it raised
    history         \* the successfully applied blocks, oldest first

vars == <<input_tensor, call, built, result, history>>

\* ------------------------------------------------------------ bounds
MaxBatch == 1
MaxDim == 3
MaxChannels == 2
MaxK == 2
MaxBlocks == 3

DropoutProbs == {3, 50}

\* The tf.keras releases the blocks may run on.
Keras == [rejects_zero_filters : BOOLEAN]

\* The releases that behave differently on a convolution of `filters`
\* filters: they differ on filters = 0 only, so one stands for all otherwise.
Installed(filters) ==
    IF filters = 0 THEN Keras ELSE {[rejects_zero_filters |-> TRUE]}

\* ------------------------------------------------------------ tensors
Tensor(n, h, w, c) == [ok |-> TRUE, shape |-> <<n, h, w, c>>, at |-> "", error |-> ""]

Raise(kind, where) == [ok |-> FALSE, shape |-> <<>>, at |-> where, error |-> kind]

Batch(t) == t.shape[1]
Height(t) == t.shape[2]
Width(t) == t.shape[3]
Channels(t) == t.shape[4]

\* ------------------------------------------------------------ layers
Layer(class, filters, kernel_size, strides, dilation_rate, padding, rate, axis) ==
    [class |-> class, filters |-> filters, kernel_size |-> kernel_size,
     strides |-> strides, dilation_rate |-> dilation_rate, padding |-> padding,
     rate |-> rate, axis |-> axis]

Conv2D(filters, kernel_size, strides, dilation_rate, padding) ==
    Layer("Conv2D", filters, kernel_size, strides, dilation_rate, padding, 0, 0)

MaxPool2D(pool_size, strides) ==
    Layer("MaxPool2D", 0, pool_size, strides, <<1, 1>>, "valid", 0, 0)

Conv2DTranspose(filters, kernel_size, strides, padding) ==
    Layer("Conv2DTranspose", filters, <<kernel_size, kernel_size>>, strides,
          <<1, 1>>, padding, 0, 0)

Concatenate(axis) ==
    Layer("Concatenate", 0, <<0, 0>>, <<1, 1>>, <<1, 1>>, "", 0, axis)

BatchNormalization ==
    Layer("BatchNormalization", 0, <<0, 0>>, <<1, 1>>, <<1, 1>>, "", 0, 0)

ReLU == Layer("ReLU", 0, <<0, 0>>, <<1, 1>>, <<1, 1>>, "", 0, 0)

Add == Layer("Add", 0, <<0, 0>>, <<1, 1>>, <<1, 1>>, "", 0, 0)

Dropout(rate) == Layer("Dropout", 0, <<0, 0>>, <<1, 1>>, <<1, 1>>, "", rate, 0)

\* `x = layer(operands)`: operand 0 is input_tensor, operand k > 0 is the
\* output of the k-th layer call of the function body.
Node(layer, inbound) == [layer |-> layer, inbound |-> inbound]

\* ------------------------------------------------------------ shape inference
\* Output length of a convolution or pooling window along one axis.
ConvOutputLength(input_length, filter_size, padding, stride, dilation) ==
    LET dilated == filter_size + (filter_size - 1) * (dilation - 1)
        full == IF padding = "same" THEN input_length
                ELSE input_length - dilated + 1
    IN (full + stride - 1) \div stride

\* Output length of a transposed convolution along one axis.
DeconvOutputLength(input_length, filter_size, padding, stride) ==
    IF padding = "same" THEN input_length * stride
    ELSE input_length * stride
         + (IF filter_size > stride THEN filter_size - stride ELSE 0)

\* keras.rejects_zero_filters: whether the installed Conv2D raises on
\* filters = 0 (releases differ); a negative count is an error in all.
ConvCall(l, t, keras) ==
    LET h == ConvOutputLength(Height(t), l.kernel_size[1], l.padding,
                              l.strides[1], l.dilation_rate[1])
        w == ConvOutputLength(Width(t), l.kernel_size[2], l.padding,
                              l.strides[2], l.dilation_rate[2])
    IN IF l.filters < 0 \/ (l.filters = 0 /\ keras.rejects_zero_filters)
       THEN Raise("ValueError", "Conv2D")
       ELSE IF h <= 0 \/ w <= 0
            THEN Raise("ValueError", "Conv2D")
            ELSE Tensor(Batch(t), h, w, l.filters)

MaxPoolCall(l, t) ==
    LET h == ConvOutputLength(Height(t), l.kernel_size[1], l.padding,
                              l.strides[1], 1)
        w == ConvOutputLength(Width(t), l.kernel_size[2], l.padding,
                              l.strides[2], 1)
    IN IF h <= 0 \/ w <= 0
       THEN Raise("ValueError", "MaxPool2D")
       ELSE Tensor(Batch(t), h, w, Channels(t))

ConvTransposeCall(l, t) ==
    IF l.filters <= 0
    THEN Raise("ValueError", "Conv2DTranspose")
    ELSE Tensor(Batch(t),
                DeconvOutputLength(Height(t), l.kernel_size[1], l.padding, l.strides[1]),
                DeconvOutputLength(Width(t), l.kernel_size[2], l.padding, l.strides[2]),
                l.filters)

RECURSIVE SumChannels(_)
SumChannels(ts) ==
    IF ts = <<>> THEN 0 ELSE Channels(Head(ts)) + SumChannels(Tail(ts))

\* Concatenate(axis = 3): every other axis must agree.
ConcatenateCall(l, ts) ==
    IF \A i, j \in 1..Len(ts) :
           /\ Batch(ts[i]) = Batch(ts[j])
           /\ Height(ts[i]) = Height(ts[j])
           /\ Width(ts[i]) = Width(ts[j])
    THEN Tensor(Batch(ts[1]), Height(ts[1]), Width(ts[1]), SumChannels(ts))
    ELSE Raise("ValueError", "Concatenate")

\* One axis of the element-wise merge: a length of 1 broadcasts.
ElemwiseDim(i, j) ==
    IF i = 1 THEN j
    ELSE IF j = 1 THEN i
    ELSE IF i = j THEN i
    ELSE 0

RECURSIVE ElemwiseShape(_, _)
ElemwiseShape(acc, ts) ==
    IF ts = <<>> THEN acc
    ELSE LET t == Head(ts)
             h == ElemwiseDim(acc[2], Height(t))
             w == ElemwiseDim(acc[3], Width(t))
             c == ElemwiseDim(acc[4], Channels(t))
         IN IF acc[1] # Batch(t) \/ h = 0 \/ w = 0 \/ c = 0
            THEN <<>>
            ELSE ElemwiseShape(<<acc[1], h, w, c>>, Tail(ts))

AddCall(l, ts) ==
    LET s == ElemwiseShape(ts[1].shape, Tail(ts))
    IN IF s = <<>> THEN Raise("ValueError", "Add")
       ELSE Tensor(s[1], s[2], s[3], s[4])

DropoutCall(l, t) ==
    IF l.rate < 0 \/ l.rate > 100 THEN Raise("ValueError", "Dropout") ELSE t

CallLayer(l, ts, keras) ==
    CASE l.class = "Conv2D" -> ConvCall(l, ts[1], keras)
      [] l.class = "MaxPool2D" -> MaxPoolCall(l, ts[1])
      [] l.class = "Conv2DTranspose" -> ConvTransposeCall(l, ts[1])
      [] l.class = "Concatenate" -> ConcatenateCall(l, ts)
      [] l.class = "Add" -> AddCall(l, ts)
      [] l.class = "Dropout" -> DropoutCall(l, ts[1])
      [] OTHER -> ts[1]

\* A node with the tensor its layer call returned.
Built(nodes, outs) ==
    [k \in 1..Len(outs) |->
        [layer |-> nodes[k].layer, inbound |-> nodes[k].inbound, output |-> outs[k]]]

\* Runs a function body: the nodes in program order, stopping at the first
\* layer that raises.  outs[k] is the tensor the k-th layer call returned;
\* the value of the body is the tensor of its last statement.
RECURSIVE Construct(_, _, _, _)
Construct(nodes, input, outs, keras) ==
    IF Len(outs) = Len(nodes)
    THEN [built |-> Built(nodes, outs), result |-> outs[Len(outs)]]
    ELSE LET nd == nodes[Len(outs) + 1]
             ins == [i \in 1..Len(nd.inbound) |->
                        IF nd.inbound[i] = 0 THEN input ELSE outs[nd.inbound[i]]]
             out == CallLayer(nd.layer, ins, keras)
         IN IF out.ok
            THEN Construct(nodes, input, Append(outs, out), keras)
            ELSE [built |-> Built(nodes, outs), result |-> out]

\* ------------------------------------------------------------ blocks.py
\* DownsamplingBlock: x1 is node 1, x2 is node 2, then x is nodes 3, 4, 5.
DownsamplingBlockLayers(input_channels, output_channels) ==
    << Node(Conv2D(output_channels - input_channels, <<3, 3>>, <<2, 2>>,
                   <<1, 1>>, "same"), <<0>>),
       Node(MaxPool2D(<<2, 2>>, <<2, 2>>), <<0>>),
       Node(Concatenate(3), <<1, 2>>),
       Node(BatchNormalization, <<3>>),
       Node(ReLU, <<4>>) >>

DownsamplingBlock(input, input_channels, output_channels, keras) ==
    Construct(DownsamplingBlockLayers(input_channels, output_channels), input,
              <<>>, keras)

\* FCU: x is rebound by every statement, so node k reads node k - 1, except
\* the first convolution and the Add, which read input_tensor.
FCULayers(output_channels, K, dropout_prob) ==
    << Node(Conv2D(output_channels, <<K, 1>>, <<1, 1>>, <<1, 1>>, "same"), <<0>>),
       Node(ReLU, <<1>>),
       Node(Conv2D(output_channels, <<1, K>>, <<1, 1>>, <<1, 1>>, "same"), <<2>>),
       Node(BatchNormalization, <<3>>),
       Node(ReLU, <<4>>),
       Node(Conv2D(output_channels, <<K, 1>>, <<1, 1>>, <<1, 1>>, "same"), <<5>>),
       Node(ReLU, <<6>>),
       Node(Conv2D(output_channels, <<1, K>>, <<1, 1>>, <<1, 1>>, "same"), <<7>>),
       Node(BatchNormalization, <<8>>),
       Node(Add, <<0, 9>>),
       Node(Dropout(dropout_prob), <<10>>),
       Node(ReLU, <<11>>) >>

\* FCU with the last convolution left at the default padding ('valid').
FCU_ValidPadding(input, output_channels, K, dropout_prob, keras) ==
    Construct([FCULayers(output_channels, K, dropout_prob) EXCEPT
                   ![8].layer.padding = "valid"], input, <<>>, keras)

\* FCU with the skip connection taken after the first convolution.
FCU_SkipFromFirstConv(input, output_channels, K, dropout_prob, keras) ==
    Construct([FCULayers(output_channels, K, dropout_prob) EXCEPT
                   ![10].inbound = <<1, 9>>], input, <<>>, keras)

FCU(input, output_channels, K, dropout_prob, keras) ==
    Construct(FCULayers(output_channels, K, dropout_prob), input, <<>>, keras)

\* PFCU: nodes 1-2 are the first rebinding of x, nodes 3-5 the second (read
\* from input_tensor again), 6-9 branch_1, 10-13 branch_2, 14-17 branch_3.
PFCULayers(output_channels) ==
    << Node(Conv2D(output_channels, <<3, 1>>, <<1, 1>>, <<1, 1>>, "same"), <<0>>),
       Node(ReLU, <<1>>),
       Node(Conv2D(output_channels, <<1, 3>>, <<1, 1>>, <<1, 1>>, "same"), <<0>>),
       Node(BatchNormalization, <<3>>),
       Node(ReLU, <<4>>),
       Node(Conv2D(output_channels, <<3, 1>>, <<1, 1>>, <<2, 2>>, "same"), <<5>>),
       Node(ReLU, <<6>>),
       Node(Conv2D(output_channels, <<1, 3>>, <<1, 1>>, <<2, 2>>, "same"), <<7>>),
       Node(BatchNormalization, <<8>>),
       Node(Conv2D(output_channels, <<3, 1>>, <<1, 1>>, <<5, 5>>, "same"), <<5>>),
       Node(ReLU, <<10>>),
       Node(Conv2D(output_channels, <<1, 3>>, <<1, 1>>, <<5, 5>>, "same"), <<11>>),
       Node(BatchNormalization, <<12>>),
       Node(Conv2D(output_channels, <<3, 1>>, <<1, 1>>, <<9, 9>>, "same"), <<5>>),
       Node(ReLU, <<14>>),
       Node(Conv2D(output_channels, <<1, 3>>, <<1, 1>>, <<9, 9>>, "same"), <<15>>),
       Node(BatchNormalization, <<16>>),
       Node(Add, <<0, 9, 13, 17>>),
       Node(Dropout(30), <<18>>),
       Node(ReLU, <<19>>) >>

\* PFCU with the last convolution of branch_3 left at the default padding.
PFCU_ValidPadding(input, output_channels, keras) ==
    Construct([PFCULayers(output_channels) EXCEPT ![16].layer.padding = "valid"],
              input, <<>>, keras)

\* PFCU with the 1x3 convolution chained after the 3x1 convolution.
PFCU_ChainedStem(input, output_channels, keras) ==
    Construct([PFCULayers(output_channels) EXCEPT ![3].inbound = <<2>>],
              input, <<>>, keras)

\* PFCU with branch_2 reading branch_1 instead of x.
PFCU_CascadedBranches(input, output_channels, keras) ==
    Construct([PFCULayers(output_channels) EXCEPT ![10].inbound = <<9>>],
              input, <<>>, keras)

PFCU(input, output_channels, keras) ==
    Construct(PFCULayers(output_channels), input, <<>>, keras)

UpsamplingBlockLayers(output_channels) ==
    << Node(Conv2DTranspose(output_channels, 3, <<2, 2>>, "same"), <<0>>),
       Node(BatchNormalization, <<1>>),
       Node(ReLU, <<2>>) >>

\* UpsamplingBlock with the transposed convolution at stride 1.
UpsamplingBlock_UnitStride(input, output_channels, keras) ==
    Construct([UpsamplingBlockLayers(output_channels) EXCEPT
                   ![1].layer.strides = <<1, 1>>], input, <<>>, keras)

\* UpsamplingBlock with the transposed convolution at the default padding.
UpsamplingBlock_ValidPadding(input, output_channels, keras) ==
    Construct([UpsamplingBlockLayers(output_channels) EXCEPT
                   ![1].layer.padding = "valid"], input, <<>>, keras)

UpsamplingBlock(input, output_channels, keras) ==
    Construct(UpsamplingBlockLayers(output_channels), input, <<>>, keras)

\* ------------------------------------------------------------ the caller
\* The model-assembly code chains blocks: each call takes the tensor the
\* previous call returned.  An exception ends the chain.
Call(fn, input_channels, output_channels, K, dropout_prob) ==
    [fn |-> fn, input_channels |-> input_channels,
     output_channels |-> output_channels, K |-> K, dropout_prob |-> dropout_prob]

\* What a successful call did to the spatial dimensions.
Spatial(t) == <<Height(t), Width(t)>>

Applied(fn, before, after) == [fn |-> fn, before |-> before, after |-> after]

Return(c, r) ==
    /\ input_tensor' = result
    /\ call' = c
    /\ built' = r.built
    /\ result' = r.result
    /\ history' = IF r.result.ok
                  THEN Append(history, Applied(c.fn, Spatial(result), Spatial(r.result)))
                  ELSE history

Ready == result.ok /\ Len(history) < MaxBlocks

CallDownsamplingBlock ==
    /\ Ready
    /\ \E input_channels \in 1..MaxChannels, output_channels \in 1..MaxChannels :
       \E keras \in Installed(output_channels - input_channels) :
           Return(Call("DownsamplingBlock", input_channels, output_channels, 0, 0),
                  DownsamplingBlock(result, input_channels, output_channels, keras))

CallFCU ==
    /\ Ready
    /\ \E output_channels \in 1..MaxChannels, K \in 1..MaxK,
          dropout_prob \in DropoutProbs :
       \E keras \in Installed(output_channels) :
           Return(Call("FCU", 0, output_channels, K, dropout_prob),
                  FCU(result, output_channels, K, dropout_prob, keras))

CallPFCU ==
    /\ Ready
    /\ \E output_channels \in 1..MaxChannels :
       \E keras \in Installed(output_channels) :
           Return(Call("PFCU", 0, output_channels, 0, 0),
                  PFCU(result, output_channels, keras))

CallUpsamplingBlock ==
    /\ Ready
    /\ \E output_channels \in 1..MaxChannels :
       \E keras \in Installed(output_channels) :
           Return(Call("UpsamplingBlock", 0, output_channels, 0, 0),
                  UpsamplingBlock(result, output_channels, keras))

Init ==
    /\ \E n \in 1..MaxBatch, h \in 1..MaxDim, w \in 1..MaxDim, c \in 1..MaxChannels :
           /\ input_tensor = Tensor(n, h, w, c)
           /\ result = Tensor(n, h, w, c)
    /\ call = Call("", 0, 0, 0, 0)
    /\ built = <<>>
    /\ history = <<>>

Next ==
    \/ CallDownsamplingBlock
    \/ CallFCU
    \/ CallPFCU
    \/ CallUpsamplingBlock

Spec == Init /\ [][Next]_vars

\* ------------------------------------------------------------ properties
CeilHalf(x) == (x + 1) \div 2

Even(x) == x % 2 = 0

Called(fn) == call.fn = fn

\* The nodes of the last call that a path of operands leads to from node k.
RECURSIVE Ancestors(_)
Ancestors(k) ==
    {k} \cup UNION {Ancestors(built[k].inbound[i]) :
                      i \in {j \in 1..Len(built[k].inbound) : built[k].inbound[j] # 0}}

Classes == [k \in 1..Len(built) |-> built[k].layer.class]

NodesOf(class) == {k \in 1..Len(built) : built[k].layer.class = class}

\* The tensor read by operand i of node k.
OperandTensor(k, i) ==
    IF built[k].inbound[i] = 0 THEN input_tensor
    ELSE built[built[k].inbound[i]].output

\* C1: for an input with input_channels channels and input_channels <
\* output_channels, DownsamplingBlock succeeds with shape
\* (N, ceil(H/2), ceil(W/2), output_channels), for odd and even H and W.
C1_DownsamplingCeilShape ==
    (/\ Called("DownsamplingBlock")
     /\ Channels(input_tensor) = call.input_channels
     /\ call.input_channels < call.output_channels)
    => /\ result.ok
       /\ result.shape = <<Batch(input_tensor), CeilHalf(Height(input_tensor)),
                           CeilHalf(Width(input_tensor)), call.output_channels>>

\* C2: DownsamplingBlock with output_channels <= input_channels returns no
\* tensor: the block validates and fails with InvalidConfiguration before it
\* builds any layer.
C2_DownsamplingValidates ==
    (Called("DownsamplingBlock") /\ call.output_channels <= call.input_channels)
    => /\ ~result.ok
       /\ result.error = "InvalidConfiguration"
       /\ built = <<>>

\* C3: for every K and dropout_prob, FCU on an input with output_channels
\* channels returns the input's shape: each of its four convolutions keeps H
\* and W, and both operands of the Add have the input's shape.
C3_FCUPreservesShape ==
    (Called("FCU") /\ Channels(input_tensor) = call.output_channels)
    => /\ result.ok
       /\ result.shape = input_tensor.shape
       /\ Cardinality(NodesOf("Conv2D")) = 4
       /\ \A k \in NodesOf("Conv2D") : Spatial(built[k].output) = Spatial(input_tensor)
       /\ \A k \in NodesOf("Add") :
              \A i \in 1..Len(built[k].inbound) :
                  OperandTensor(k, i).shape = input_tensor.shape

C3_Witness ==
    /\ Called("FCU")
    /\ Channels(input_tensor) = call.output_channels
    /\ call.K = 2
    /\ Height(input_tensor) = 1
    /\ Width(input_tensor) = MaxDim
    /\ result.ok
    /\ Len(built) = 12

\* C4: PFCU on an input with output_channels channels returns the input's
\* shape, also when H and W are below the extent of the dilated kernels, and
\* the four operands of its Add all have that shape.
C4_PFCUPreservesShape ==
    (Called("PFCU") /\ Channels(input_tensor) = call.output_channels)
    => /\ result.ok
       /\ result.shape = input_tensor.shape
       /\ \A k \in NodesOf("Add") :
              /\ Len(built[k].inbound) = 4
              /\ \A i \in 1..4 : OperandTensor(k, i).shape = input_tensor.shape

C4_Witness ==
    /\ Called("PFCU")
    /\ Channels(input_tensor) = call.output_channels
    /\ Height(input_tensor) < 19
    /\ Width(input_tensor) < 19
    /\ result.ok
    /\ NodesOf("Add") # {}

\* C5: UpsamplingBlock on an input with even H and W returns shape
\* (N, 2H, 2W, output_channels), whatever the input's channel count.
C5_UpsamplingDoubles ==
    (Called("UpsamplingBlock") /\ Even(Height(input_tensor))
        /\ Even(Width(input_tensor)) /\ call.output_channels >= 1)
    => /\ result.ok
       /\ result.shape = <<Batch(input_tensor), 2 * Height(input_tensor),
                           2 * Width(input_tensor), call.output_channels>>

C5_Witness ==
    /\ Called("UpsamplingBlock")
    /\ Even(Height(input_tensor))
    /\ Even(Width(input_tensor))
    /\ Channels(input_tensor) # call.output_channels
    /\ result.ok

\* C6: FCU and PFCU on an input whose channel count differs from
\* output_channels (a single channel included) fail at the residual Add and
\* return no tensor.
C6_ChannelMismatchRaises ==
    ((Called("FCU") \/ Called("PFCU"))
        /\ Channels(input_tensor) # call.output_channels)
    => /\ ~result.ok
       /\ result.at = "Add"

\* C7: in the graph PFCU builds, no path leads from the first 3x1
\* convolution or its ReLU to the returned tensor, and the x every dilated
\* branch reads is ReLU(BatchNormalization(Conv 1x3(input_tensor))).
C7_PFCUStemIsDead ==
    (Called("PFCU") /\ result.ok)
    => /\ built[1].layer.class = "Conv2D"
       /\ built[1].layer.kernel_size = <<3, 1>>
       /\ built[1].layer.dilation_rate = <<1, 1>>
       /\ built[1].inbound = <<0>>
       /\ built[2].layer.class = "ReLU"
       /\ built[2].inbound = <<1>>
       /\ 1 \notin Ancestors(Len(built))
       /\ 2 \notin Ancestors(Len(built))
       /\ \A k \in NodesOf("Conv2D") :
              (built[k].layer.dilation_rate # <<1, 1>>
                  /\ built[k].layer.kernel_size = <<3, 1>>)
              => LET x == built[k].inbound[1]
                     bn == built[x].inbound[1]
                     conv == built[bn].inbound[1]
                 IN /\ Len(built[k].inbound) = 1
                    /\ built[x].layer.class = "ReLU"
                    /\ built[bn].layer.class = "BatchNormalization"
                    /\ built[conv].layer.class = "Conv2D"
                    /\ built[conv].layer.kernel_size = <<1, 3>>
                    /\ built[conv].layer.dilation_rate = <<1, 1>>
                    /\ built[conv].inbound = <<0>>

C7_Witness ==
    /\ Called("PFCU")
    /\ result.ok
    /\ built[1].layer.kernel_size = <<3, 1>>
    /\ built[1].output.ok
    /\ 5 \in Ancestors(Len(built))

\* C8: FCU applies Conv Kx1, ReLU, Conv 1xK, BatchNormalization, ReLU,
\* Conv Kx1, ReLU, Conv 1xK, BatchNormalization, Add(input, pass 2), Dropout,
\* ReLU in this order, each reading the one before it; the skip operand of
\* the Add is the function argument.
C8_FCULayerOrder ==
    (Called("FCU") /\ result.ok)
    => /\ Classes = << "Conv2D", "ReLU", "Conv2D", "BatchNormalization", "ReLU",
                       "Conv2D", "ReLU", "Conv2D", "BatchNormalization", "Add",
                       "Dropout", "ReLU" >>
       /\ \A k \in {1, 6} : built[k].layer.kernel_size = <<call.K, 1>>
       /\ \A k \in {3, 8} : built[k].layer.kernel_size = <<1, call.K>>
       /\ built[1].inbound = <<0>>
       /\ \A k \in (2..12) \ {10} : built[k].inbound = <<k - 1>>
       /\ built[10].inbound = <<0, 9>>
       /\ built[11].layer.rate = call.dropout_prob

C8_Witness ==
    /\ Called("FCU")
    /\ result.ok
    /\ Len(built) = 12
    /\ call.K = 2
    /\ call.dropout_prob = 50

\* The first convolutions of the dilated branches of the last call.
BranchHeads ==
    {k \in NodesOf("Conv2D") :
        built[k].layer.dilation_rate # <<1, 1>> /\ built[k].layer.kernel_size = <<3, 1>>}

\* C9: PFCU builds exactly three branches that all read the same x, with
\* dilation rates 2, 5 and 9 on both convolutions, each Conv 3x1, ReLU,
\* Conv 1x3, BatchNormalization; the Add has four operands, the input and the
\* three branch outputs, and is followed by Dropout(0.3) and ReLU.
C9_PFCUBranches ==
    (Called("PFCU") /\ result.ok)
    => /\ Cardinality(BranchHeads) = 3
       /\ {built[k].layer.dilation_rate : k \in BranchHeads}
              = {<<2, 2>>, <<5, 5>>, <<9, 9>>}
       /\ \A j, k \in BranchHeads : built[j].inbound = built[k].inbound
       /\ \A k \in BranchHeads :
              /\ Len(built[k].inbound) = 1
              /\ \A j \in BranchHeads : built[k].inbound[1] \notin j..(j + 3)
              /\ built[k + 1].layer.class = "ReLU"
              /\ built[k + 1].inbound = <<k>>
              /\ built[k + 2].layer.class = "Conv2D"
              /\ built[k + 2].layer.kernel_size = <<1, 3>>
              /\ built[k + 2].layer.dilation_rate = built[k].layer.dilation_rate
              /\ built[k + 2].inbound = <<k + 1>>
              /\ built[k + 3].layer.class = "BatchNormalization"
              /\ built[k + 3].inbound = <<k + 2>>
       /\ Len(built) >= 3
       /\ LET add == Len(built) - 2
          IN /\ NodesOf("Add") = {add}
             /\ Len(built[add].inbound) = 4
             /\ {built[add].inbound[i] : i \in 1..4}
                    = {0} \cup {k + 3 : k \in BranchHeads}
             /\ built[add + 1].layer.class = "Dropout"
             /\ built[add + 1].layer.rate = 30
             /\ built[add + 1].inbound = <<add>>
             /\ built[add + 2].layer.class = "ReLU"
             /\ built[add + 2].inbound = <<add + 1>>

C9_Witness ==
    /\ Called("PFCU")
    /\ result.ok
    /\ Cardinality(BranchHeads) = 3
    /\ Len(built) = 20

Residual(fn) == fn \in {"FCU", "PFCU"}

\* A DownsamplingBlock at i and an UpsamplingBlock at j with only FCU and
\* PFCU between them.
RoundTrip(i, j) ==
    /\ i < j
    /\ history[i].fn = "DownsamplingBlock"
    /\ history[j].fn = "UpsamplingBlock"
    /\ \A k \in (i + 1)..(j - 1) : Residual(history[k].fn)

\* C10: along any chain of successfully applied blocks, FCU and PFCU leave
\* H and W unchanged, and a DownsamplingBlock followed, after any number of
\* FCU and PFCU, by an UpsamplingBlock gives back the H and W it started from
\* exactly when both are even.
C10_RoundTrip ==
    /\ \A i \in 1..Len(history) :
           Residual(history[i].fn) => history[i].after = history[i].before
    /\ \A i, j \in 1..Len(history) :
           RoundTrip(i, j)
           => (history[j].after = history[i].before
                  <=> Even(history[i].before[1]) /\ Even(history[i].before[2]))

C10_Witness ==
    /\ Len(history) = 3
    /\ RoundTrip(1, 3)
    /\ Residual(history[2].fn)
    /\ history[3].after = history[1].before
    /\ history[1].after # history[1].before

====
